---- MODULE Spec2Model ----
(***************************************************************************)
(* Model of tools/codebase_rag.py: the Go source parser (GoCodeParser),    *)
(* the SQLite-backed entity store and keyword search (CodebaseRAG) and the *)
(* command loop of main().                                                 *)
(*                                                                         *)
(* Text is modelled at two levels.  Python strings that the program        *)
(* inspects character by character (names, paths, ids, summaries, keyword  *)
(* strings, queries) are sequences of one-character strings.  The content  *)
(* of a Go file is a sequence of lexemes ("tokens"): a token stands for    *)
(* the piece of text one alternative of the program's regular expressions  *)
(* consumes or skips, and positions in a content are token positions.      *)
(***************************************************************************)
EXTENDS Integers, Sequences, FiniteSets, TLC

\* None / SQL NULL in a text column: a value no character string equals
NULL == <<"NULL">>

(***************************************************************************)
(* Bounds of the model.                                                    *)
(***************************************************************************)
MaxRuns == 2
MaxEdits == 1
MaxLimit == 2

(***************************************************************************)
(* Character strings.                                                      *)
(***************************************************************************)
\* the characters in code-point order, as SQLite's BINARY collation and
\* Python compare them
CharOrder ==
  <<" ", ".", "/", "0", "1", "2", "3", "4", "5", "6", "7", "8", "9", ":",
    "A", "B", "C", "D", "E", "F", "G", "H", "I", "J", "K", "L", "M", "N",
    "O", "P", "Q", "R", "S", "T", "U", "V", "W", "X", "Y", "Z", "_",
    "a", "b", "c", "d", "e", "f", "g", "h", "i", "j", "k", "l", "m", "n",
    "o", "p", "q", "r", "s", "t", "u", "v", "w", "x", "y", "z">>

Ord(c) == CHOOSE i \in 1..Len(CharOrder) : CharOrder[i] = c

Upper == <<"A","B","C","D","E","F","G","H","I","J","K","L","M","N","O","P","Q","R","S","T","U","V","W","X","Y","Z">>
LowerOf == <<"a","b","c","d","e","f","g","h","i","j","k","l","m","n","o","p","q","r","s","t","u","v","w","x","y","z">>
Digits == <<"0","1","2","3","4","5","6","7","8","9">>

InSeq(c, s) == \E i \in 1..Len(s) : s[i] = c

\* str.lower() on one character
LowerChar(c) ==
  IF InSeq(c, Upper) THEN LowerOf[CHOOSE i \in 1..Len(Upper) : Upper[i] = c]
  ELSE c

\* str.lower()
Lower(s) == [i \in 1..Len(s) |-> LowerChar(s[i])]

\* \w of the re module
IsWordChar(c) == InSeq(c, Upper) \/ InSeq(c, LowerOf) \/ InSeq(c, Digits) \/ c = "_"

\* s[:n]
Take(s, n) == SubSeq(s, 1, IF n < Len(s) THEN n ELSE Len(s))

\* s.startswith(p)
StartsWith(s, p) == Len(p) <= Len(s) /\ SubSeq(s, 1, Len(p)) = p

\* p in s (substring containment)
Contains(s, p) ==
  \E i \in 0..(Len(s) - Len(p)) : SubSeq(s, i + 1, i + Len(p)) = p

RECURSIVE SplitAcc(_, _, _, _)
SplitAcc(s, sep, cur, acc) ==
  IF s = <<>> THEN Append(acc, cur)
  ELSE IF Head(s) = sep THEN SplitAcc(Tail(s), sep, <<>>, Append(acc, cur))
  ELSE SplitAcc(Tail(s), sep, Append(cur, Head(s)), acc)

\* s.split(sep): empty pieces are kept
SplitOn(s, sep) == SplitAcc(s, sep, <<>>, <<>>)

\* s.split(): split on runs of whitespace, no empty pieces
SplitWs(s) == SelectSeq(SplitOn(s, " "), LAMBDA w : w # <<>>)

\* s.strip() for the whitespace of the character model
RECURSIVE StripLeft(_)
StripLeft(s) == IF s # <<>> /\ Head(s) = " " THEN StripLeft(Tail(s)) ELSE s

RECURSIVE StripRight(_)
StripRight(s) ==
  IF s # <<>> /\ s[Len(s)] = " " THEN StripRight(SubSeq(s, 1, Len(s) - 1)) ELSE s

Strip(s) == StripRight(StripLeft(s))

RECURSIVE WordsAcc(_, _, _)
WordsAcc(s, cur, acc) ==
  IF s = <<>> THEN (IF cur = <<>> THEN acc ELSE Append(acc, cur))
  ELSE IF IsWordChar(Head(s)) THEN WordsAcc(Tail(s), Append(cur, Head(s)), acc)
  ELSE WordsAcc(Tail(s), <<>>, IF cur = <<>> THEN acc ELSE Append(acc, cur))

\* re.findall(r'\b\w+\b', s): the maximal runs of word characters
Words(s) == WordsAcc(s, <<>>, <<>>)

RECURSIVE Join(_, _)
\* sep.join(ws)
Join(ws, sep) ==
  IF ws = <<>> THEN <<>>
  ELSE IF Len(ws) = 1 THEN ws[1]
  ELSE ws[1] \o sep \o Join(Tail(ws), sep)

RECURSIVE Str(_)
\* str(n) of a non-negative integer
Str(n) == IF n < 10 THEN <<Digits[n + 1]>> ELSE Str(n \div 10) \o <<Digits[(n % 10) + 1]>>

RECURSIVE StrLess(_, _)
\* a < b for strings: lexicographic by code point
StrLess(a, b) ==
  IF b = <<>> THEN FALSE
  ELSE IF a = <<>> THEN TRUE
  ELSE IF Head(a) = Head(b) THEN StrLess(Tail(a), Tail(b))
  ELSE Ord(Head(a)) < Ord(Head(b))

(***************************************************************************)
(* Go file contents as token sequences.  Token kinds:                      *)
(*   package   `package <s>`                                               *)
(*   comment   `//<s>` up to the end of the line                           *)
(*   func      `func <s>(...)` or `func <s>(...) (...)`: a header the      *)
(*             function pattern accepts when a brace follows               *)
(*   funcret   `func <s>(...) T`: a header with an unparenthesised result  *)
(*             type, which the function pattern cannot match               *)
(*   struct    `type <s> struct`                                           *)
(*   interface `type <s> interface`                                        *)
(*   lbrace, rbrace, nl (newline), text (any other code)                   *)
(***************************************************************************)
Tok(k, s) == [k |-> k, s |-> s]

LB == Tok("lbrace", <<>>)
RB == Tok("rbrace", <<>>)
NL == Tok("nl", <<>>)
TX == Tok("text", <<>>)

\* truncation caps of the program
FileContentCap == 500
BlockCap == 500
BodyCap == 300
SummaryCap == 200
SummaryLines == 20
SummaryWords == 5

Min(a, b) == IF a < b THEN a ELSE b

\* entity_type values
T_file == <<"f","i","l","e">>
T_function == <<"f","u","n","c","t","i","o","n">>
T_struct == <<"s","t","r","u","c","t">>
T_interface == <<"i","n","t","e","r","f","a","c","e">>

\* the embedding column when no vector was generated
NoEmbedding == [set |-> FALSE, text |-> <<>>, sig |-> <<>>]

\* the dataclass CodeEntity
CodeEntity(id, type, name, path, line, content, summary, signature, parent) ==
  [entity_id |-> id, entity_type |-> type, name |-> name, file_path |-> path,
   line_number |-> line, content |-> content, summary |-> summary,
   signature |-> signature, parent_entity |-> parent, embedding |-> NoEmbedding]

RECURSIVE FirstOfKind(_, _, _)
\* re.search(pattern, content) for a one-token pattern: position of the
\* first token of kind k at or after position i, 0 when there is none
FirstOfKind(content, k, i) ==
  IF i > Len(content) THEN 0
  ELSE IF content[i].k = k THEN i
  ELSE FirstOfKind(content, k, i + 1)

\* _extract_package
ExtractPackage(content) ==
  LET i == FirstOfKind(content, "package", 1)
  IN IF i = 0 THEN <<"u","n","k","n","o","w","n">> ELSE content[i].s

RECURSIVE LinesAcc(_, _, _)
LinesAcc(content, cur, acc) ==
  IF content = <<>> THEN Append(acc, cur)
  ELSE IF Head(content).k = "nl" THEN LinesAcc(Tail(content), <<>>, Append(acc, cur))
  ELSE LinesAcc(Tail(content), Append(cur, Head(content)), acc)

\* content.split('\n')
Lines(content) == LinesAcc(content, <<>>, <<>>)

RECURSIVE StripCharsLeft(_, _)
StripCharsLeft(s, c) == IF s # <<>> /\ Head(s) = c THEN StripCharsLeft(Tail(s), c) ELSE s

RECURSIVE StripCharsRight(_, _)
StripCharsRight(s, c) ==
  IF s # <<>> /\ s[Len(s)] = c THEN StripCharsRight(SubSeq(s, 1, Len(s) - 1), c) ELSE s

\* line.strip("//").strip() of a comment line `//<s>`
CommentText(s) == Strip(StripCharsRight(StripCharsLeft(<<"/","/">> \o s, "/"), "/"))

RECURSIVE SummaryLinesOf(_, _)
\* the loop of _extract_file_summary over the lines it looks at
SummaryLinesOf(lines, acc) ==
  IF lines = <<>> THEN acc
  ELSE LET line == Head(lines)
       IN IF line # <<>> /\ line[1].k = "comment"
          THEN SummaryLinesOf(Tail(lines), Append(acc, CommentText(line[1].s)))
          ELSE IF line # <<>> /\ line[1].k # "package" THEN acc
          ELSE SummaryLinesOf(Tail(lines), acc)

\* _extract_file_summary
ExtractFileSummary(content) ==
  LET summary_lines == SummaryLinesOf(Take(Lines(content), SummaryLines), <<>>)
  IN IF summary_lines # <<>> THEN Take(Join(summary_lines, <<" ">>), SummaryCap)
     ELSE <<"G","o"," ","p","a","c","k","a","g","e">>

RECURSIVE MatchEnd(_, _)
\* the `\s*\{` tail of the declaration patterns, tried after position i:
\* position of the brace that ends the match, 0 when the pattern fails
MatchEnd(content, i) ==
  IF i + 1 > Len(content) THEN 0
  ELSE IF content[i + 1].k = "nl" THEN MatchEnd(content, i + 1)
  ELSE IF content[i + 1].k = "lbrace" THEN i + 1
  ELSE 0

\* re.finditer(pattern, content) for the declaration pattern of header kind
\* k: the start positions of the matches, left to right
Matches(content, k) ==
  SelectSeq([i \in 1..Len(content) |-> i],
            LAMBDA i : content[i].k = k /\ MatchEnd(content, i) # 0)

\* content[:match.start()].count('\n') + 1
LineNumber(content, start) ==
  Cardinality({j \in 1..(start - 1) : content[j].k = "nl"}) + 1

RECURSIVE StripNlLeft(_)
StripNlLeft(s) == IF s # <<>> /\ Head(s).k = "nl" THEN StripNlLeft(Tail(s)) ELSE s

RECURSIVE StripNlRight(_)
StripNlRight(s) ==
  IF s # <<>> /\ s[Len(s)].k = "nl" THEN StripNlRight(SubSeq(s, 1, Len(s) - 1)) ELSE s

\* str.strip() of a piece of content
StripTokens(s) == StripNlRight(StripNlLeft(s))

RECURSIVE ScanBlock(_, _, _)
\* the while loop of _extract_code_block: the value of pos when it ends
ScanBlock(content, pos, depth) ==
  IF pos <= Len(content) /\ depth > 0
  THEN ScanBlock(content, pos + 1,
                 IF content[pos].k = "lbrace" THEN depth + 1
                 ELSE IF content[pos].k = "rbrace" THEN depth - 1
                 ELSE depth)
  ELSE pos

\* content.find('{', end): first brace after the last token of the match
FindBrace(content, last) == FirstOfKind(content, "lbrace", last + 1)

\* _extract_code_block(content, match.start(), match.end()); first and last
\* are the positions of the first and the last token of the match
ExtractCodeBlock(content, first, last) ==
  LET brace_pos == FindBrace(content, last)
  IN IF brace_pos = 0
     THEN [signature |-> SubSeq(content, first, last), body |-> <<>>]
     ELSE LET pos == ScanBlock(content, brace_pos + 1, 1)
          IN [signature |-> StripTokens(SubSeq(content, first, brace_pos - 1)),
              body |-> SubSeq(content, brace_pos,
                              Min(pos, brace_pos + BlockCap) - 1)]

\* f"file:{relative_path}"
FileId(path) == <<"f","i","l","e",":">> \o path

\* f"func:{file_path}:{func_name}:{line_number}" and the same for types
DeclId(prefix, path, name, line) ==
  prefix \o <<":">> \o path \o <<":">> \o name \o <<":">> \o Str(line)

\* file_path.name
FileName(path) == LET parts == SplitOn(path, "/") IN parts[Len(parts)]

\* the file-level entity of _parse_file
FileEntity(path, content) ==
  CodeEntity(FileId(path), T_file, FileName(path), path, 1,
             Take(content, FileContentCap), ExtractFileSummary(content),
             <<Tok("package", ExtractPackage(content))>>, NULL)

\* one iteration of the loop of _extract_functions, for the match at start
FunctionEntity(content, path, parent_id, start) ==
  LET func_name == content[start].s
      line_number == LineNumber(content, start)
      block == ExtractCodeBlock(content, start, MatchEnd(content, start))
  IN CodeEntity(DeclId(<<"f","u","n","c">>, path, func_name, line_number), T_function,
                func_name, path, line_number, Take(block.body, BodyCap),
                <<"F","u","n","c","t","i","o","n"," ">> \o func_name, block.signature, parent_id)

\* _extract_functions: the entities it appends
ExtractFunctions(content, path, parent_id) ==
  LET kept == SelectSeq(Matches(content, "func"),
                        LAMBDA i : ~StartsWith(content[i].s, <<"T","e","s","t">>))
  IN [n \in 1..Len(kept) |-> FunctionEntity(content, path, parent_id, kept[n])]

\* str.upper() on one character
UpperChar(c) ==
  IF InSeq(c, LowerOf) THEN Upper[CHOOSE i \in 1..Len(LowerOf) : LowerOf[i] = c]
  ELSE c

\* type_name.capitalize()
Capitalized(type) ==
  IF type = <<>> THEN <<>> ELSE <<UpperChar(Head(type))>> \o Lower(Tail(type))

\* a type entity built without the parent_entity argument
TypeEntityNoParent(content, path, parent_id, type_name, start) ==
  LET name == content[start].s
      line_number == LineNumber(content, start)
      block == ExtractCodeBlock(content, start, MatchEnd(content, start))
  IN CodeEntity(DeclId(type_name, path, name, line_number), type_name,
                name, path, line_number, Take(block.body, BodyCap),
                Capitalized(type_name) \o <<" ">> \o name, block.signature,
                NULL)

\* one iteration of the inner loop of _extract_types
TypeEntity(content, path, parent_id, type_name, start) ==
  LET name == content[start].s
      line_number == LineNumber(content, start)
      block == ExtractCodeBlock(content, start, MatchEnd(content, start))
  IN CodeEntity(DeclId(type_name, path, name, line_number), type_name,
                name, path, line_number, Take(block.body, BodyCap),
                Capitalized(type_name) \o <<" ">> \o name, block.signature,
                parent_id)

\* the entities of one pattern of _extract_types
TypesOfKind(content, path, parent_id, k, type_name) ==
  LET ms == Matches(content, k)
  IN [n \in 1..Len(ms) |-> TypeEntity(content, path, parent_id, type_name, ms[n])]

\* _extract_types: struct matches first, then interface matches
ExtractTypes(content, path, parent_id) ==
  TypesOfKind(content, path, parent_id, "struct", T_struct)
    \o TypesOfKind(content, path, parent_id, "interface", T_interface)

\* _parse_file with the two extraction calls in the other order
ParseFileTypesFirst(path, content) ==
  LET file_entity == FileEntity(path, content)
  IN <<file_entity>>
       \o ExtractTypes(content, path, file_entity.entity_id)
       \o ExtractFunctions(content, path, file_entity.entity_id)

\* _parse_file when nothing raises: the entities appended for one file
ParseFile(path, content) ==
  LET file_entity == FileEntity(path, content)
  IN <<file_entity>>
       \o ExtractFunctions(content, path, file_entity.entity_id)
       \o ExtractTypes(content, path, file_entity.entity_id)


(***************************************************************************)
(* The store: the tables entities and search_index.  A table is the        *)
(* sequence of its rows in rowid order.                                    *)
(***************************************************************************)
\* INSERT into a table without a primary key: the old row stays
InsertOnly(table, row) == Append(table, row)

\* INSERT OR REPLACE INTO a table whose primary key is entity_id: a row with
\* the same key is deleted and the new row gets the next rowid
InsertOrReplace(table, row) ==
  SelectSeq(table, LAMBDA r : r.entity_id # row.entity_id) \o <<row>>

\* SELECT ... WHERE entity_id = ? followed by fetchone(): the rows found
RowsWithId(table, id) == SelectSeq(table, LAMBDA r : r.entity_id = id)

\* EmbeddingGenerator.generate: None without a model, else the vector of
\* the text built from name, type, summary and signature
Generate(entity, has_model) ==
  IF has_model
  THEN [set |-> TRUE,
        text |-> <<entity.name, entity.entity_type, entity.summary>>,
        sig |-> entity.signature]
  ELSE NoEmbedding

\* the row written by the first statement of the loop of index_entities
EntityRow(entity, has_model) ==
  [entity EXCEPT !.embedding = Generate(entity, has_model)]

\* _create_keywords
CreateKeywords(entity) ==
  LET words == Words(entity.name)
                 \o <<entity.entity_type>>
                 \o Take(Words(entity.summary), SummaryWords)
                 \o SplitOn(entity.file_path, "/")
  IN Lower(Join(words, <<" ">>))

\* the row written by the second statement of the loop of index_entities
KeywordRow(entity) ==
  [entity_id |-> entity.entity_id, keywords |-> CreateKeywords(entity)]

RECURSIVE SortedIds(_)
\* the keys of a set of ids in ascending order of the primary-key index
SortedIds(ids) ==
  IF ids = {} THEN <<>>
  ELSE LET m == CHOOSE a \in ids : \A b \in ids \ {a} : StrLess(a, b)
       IN <<m>> \o SortedIds(ids \ {m})

\* SELECT entity_id FROM search_index has no ORDER BY: SQLite answers it
\* either from the table (rowid order) or from the covering primary-key
\* index (entity_id order)
ScanPlans == {"rowid", "pk"}

ScanIds(index, plan) ==
  IF plan = "rowid" THEN [i \in 1..Len(index) |-> index[i].entity_id]
  ELSE SortedIds({index[i].entity_id : i \in 1..Len(index)})

\* sum(1 for kw in keywords if kw in keywords_text)
MatchCount(keywords, keywords_text) ==
  Cardinality({i \in 1..Len(keywords) : Contains(keywords_text, keywords[i])})

\* the loop that fills matching_ids
MatchingIds(index, scan, keywords) ==
  LET scored == [i \in 1..Len(scan) |->
                   LET found == RowsWithId(index, scan[i])
                   IN [entity_id |-> scan[i],
                       match_count |->
                         IF found = <<>> THEN 0
                         ELSE MatchCount(keywords, Lower(found[1].keywords))]]
  IN SelectSeq(scored, LAMBDA m : m.match_count > 0)

\* s[::-1]
Reverse(s) == [i \in 1..Len(s) |-> s[Len(s) + 1 - i]]

RECURSIVE SortFromReversed(_, _)
\* a descending sort obtained by reversing an ascending one: entities with
\* equal counts come out in reverse scan order
SortFromReversed(matching_ids, c) ==
  IF c <= 0 THEN <<>>
  ELSE Reverse(SelectSeq(matching_ids, LAMBDA m : m.match_count = c))
         \o SortFromReversed(matching_ids, c - 1)

RECURSIVE SortFrom(_, _)
\* matching_ids.sort(key=lambda x: x[1], reverse=True): a stable sort, so
\* equal counts keep their order; c is the largest count still to place
SortFrom(matching_ids, c) ==
  IF c <= 0 THEN <<>>
  ELSE SelectSeq(matching_ids, LAMBDA m : m.match_count = c)
         \o SortFrom(matching_ids, c - 1)

SortByRelevance(matching_ids, keywords) == SortFrom(matching_ids, Len(keywords))

\* the dictionary search builds from a row of entities
ResultOf(entity_data) ==
  [entity_id |-> entity_data.entity_id,
   entity_type |-> entity_data.entity_type,
   name |-> entity_data.name,
   file_path |-> entity_data.file_path,
   line_number |-> entity_data.line_number,
   content |-> entity_data.content,
   summary |-> entity_data.summary,
   signature |-> entity_data.signature]

\* search with the slice matching_ids[:limit + 1]
SearchOffByOne(ents, index, plan, query, limit, entity_types) ==
  LET keywords == SplitWs(Lower(query))
      matching_ids == SortByRelevance(
                        MatchingIds(index, ScanIds(index, plan), keywords),
                        keywords)
      top == Take(matching_ids, limit + 1)
      fetched == [i \in 1..Len(top) |-> RowsWithId(ents, top[i].entity_id)]
      present == SelectSeq(fetched, LAMBDA rows : rows # <<>>)
  IN [i \in 1..Len(present) |-> ResultOf(present[i][1])]

\* CodebaseRAG.search.  The statement text with the entity_type condition is
\* assembled in sql and params but never executed, so entity_types has no
\* effect on the result.
Search(ents, index, plan, query, limit, entity_types) ==
  LET keywords == SplitWs(Lower(query))
      matching_ids == SortByRelevance(
                        MatchingIds(index, ScanIds(index, plan), keywords),
                        keywords)
      top == Take(matching_ids, limit)
      fetched == [i \in 1..Len(top) |-> RowsWithId(ents, top[i].entity_id)]
      present == SelectSeq(fetched, LAMBDA rows : rows # <<>>)
  IN [i \in 1..Len(present) |-> ResultOf(present[i][1])]


\* LIMIT of the top-files statement
TopFilesLimit == 10

\* the GROUP BY statement of get_architecture_overview orders the groups by
\* count only; groups with equal counts come out in an order SQL leaves
\* open: ascending or descending file_path
TiePlans == {"asc", "desc"}

RECURSIVE SortGroups(_, _)
SortGroups(groups, tie) ==
  IF groups = {} THEN <<>>
  ELSE LET Before(a, b) ==
             \/ a.count > b.count
             \/ /\ a.count = b.count
                /\ IF tie = "asc" THEN StrLess(a.file, b.file)
                   ELSE StrLess(b.file, a.file)
           g == CHOOSE a \in groups : \A b \in groups \ {a} : Before(a, b)
       IN <<g>> \o SortGroups(groups \ {g}, tie)

\* file_path.split('/')[0]
PackageOf(file_path) == SplitOn(file_path, "/")[1]

\* get_architecture_overview without the LIMIT of its GROUP BY statement
OverviewNoLimit(ents, tie) ==
  LET rows == 1..Len(ents)
      types == {ents[i].entity_type : i \in rows}
      packages == {PackageOf(ents[i].file_path) : i \in rows}
      files == {ents[i].file_path : i \in rows}
      groups == {[file |-> f,
                  count |-> Cardinality({i \in rows : ents[i].file_path = f})]
                   : f \in files}
  IN [total_entities |-> Len(ents),
      by_type |-> [t \in types |->
                     Cardinality({i \in rows : ents[i].entity_type = t})],
      by_package |-> [p \in packages |->
                        Cardinality({i \in rows :
                                       PackageOf(ents[i].file_path) = p})],
      top_files |-> SortGroups(groups, tie)]

\* get_architecture_overview
Overview(ents, tie) ==
  LET rows == 1..Len(ents)
      types == {ents[i].entity_type : i \in rows}
      packages == {PackageOf(ents[i].file_path) : i \in rows}
      files == {ents[i].file_path : i \in rows}
      groups == {[file |-> f,
                  count |-> Cardinality({i \in rows : ents[i].file_path = f})]
                   : f \in files}
  IN [total_entities |-> Len(ents),
      by_type |-> [t \in types |->
                     Cardinality({i \in rows : ents[i].entity_type = t})],
      by_package |-> [p \in packages |->
                        Cardinality({i \in rows :
                                       PackageOf(ents[i].file_path) = p})],
      top_files |-> Take(SortGroups(groups, tie), TopFilesLimit)]

\* the value of overview before any overview was computed
NoOverview ==
  [total_entities |-> 0, by_type |-> <<>>, by_package |-> <<>>, top_files |-> <<>>]

(***************************************************************************)
(* The interactive loop of main(): how an input line is read.              *)
(***************************************************************************)
\* query.split(':', 1)
SplitFirst(s, sep) ==
  LET i == CHOOSE j \in 1..Len(s) : s[j] = sep /\ \A k \in 1..(j - 1) : s[k] # sep
  IN <<SubSeq(s, 1, i - 1), SubSeq(s, i + 1, Len(s))>>

\* "Parse search options": the arguments of the call of search.  None is the
\* empty sequence of types; search tests entity_types for truth only.
ParseOptions(query) ==
  IF InSeq(":", query)
  THEN LET parts == SplitFirst(query, ":")
           prefix == parts[1]
       IN [search_query |-> parts[2],
           entity_types |-> IF prefix = <<"f","u","n","c">> THEN <<T_function>>
                            ELSE IF prefix = <<"s","t","r","u","c","t">> THEN <<T_struct>>
                            ELSE IF prefix = <<"f","i","l","e">> THEN <<T_file>>
                            ELSE <<>>]
  ELSE [search_query |-> query, entity_types |-> <<>>]

\* limit of the searches of the interactive loop
SessionLimit == 10

(***************************************************************************)
(* Inputs of the model.                                                    *)
(***************************************************************************)
P_main == <<"m","a","i","n",".","g","o">>
P_pkg == <<"p","/","a",".","g","o">>
P_test == <<"p","/","a","_","t","e","s","t",".","g","o">>

\* package main / func Add(a, b int) (int) { return a + b }
C_add ==
  <<Tok("package", <<"m","a","i","n">>), NL, Tok("func", <<"A","d","d">>), LB, TX, RB>>

\* package main / func main() { if x { y } }
\* func Sum(a, b int) int { return a + b }
C_main ==
  <<Tok("package", <<"m","a","i","n">>), NL,
    Tok("func", <<"m","a","i","n">>), LB, TX, LB, TX, RB, RB, NL,
    Tok("funcret", <<"S","u","m">>), LB, TX, RB>>

\* // Add lib / package p / type S struct { x } / func Add() { } func Run() { y }
\* type R interface { } / func TestAdd() { }
C_lib ==
  <<Tok("comment", <<" ","A","d","d"," ","l","i","b">>), NL, Tok("package", <<"p">>), NL,
    Tok("struct", <<"S">>), LB, TX, RB, NL,
    Tok("func", <<"A","d","d">>), LB, RB, Tok("func", <<"R","u","n">>), LB, TX, RB, NL,
    Tok("interface", <<"R">>), LB, RB, NL,
    Tok("func", <<"T","e","s","t","A","d","d">>), LB, RB>>

\* package w
C_pkg == <<Tok("package", <<"w">>)>>

\* the file names of a directory with more files than the overview lists
WideNames == <<"a", "b", "c", "d", "e", "f", "g", "h", "i", "j", "k">>

\* a file of the tree; read_text raises on a file that is not readable
File(p, c) == [path |-> p, content |-> c, readable |-> TRUE]
Unreadable(p, c) == [path |-> p, content |-> c, readable |-> FALSE]

\* the source trees: the files in the order in which the file system lists
\* them to rglob("*.go")
Trees ==
  { <<File(P_main, C_add)>>,
    <<File(P_pkg, C_lib), File(P_main, C_main), File(P_test, C_add)>>,
    <<Unreadable(P_pkg, C_lib), File(P_main, C_add)>> }

\* a directory of eleven files, the first with a function, and the same
\* directory after the first file was deleted and the last got a function
WideTrees ==
  { [i \in 1..Len(WideNames) |->
       File(<<WideNames[i]>> \o <<".","g","o">>, IF i = 1 THEN C_add ELSE C_pkg)],
    [i \in 1..Len(WideNames) - 1 |->
       File(<<WideNames[i + 1]>> \o <<".","g","o">>,
            IF i + 1 = Len(WideNames) THEN C_add ELSE C_pkg)] }

\* lines typed into the interactive loop
InputLines ==
  { <<"q","u","i","t">>, <<"a","r","c","h">>, <<"h","e","l","p">>, <<>>,
    <<"A","d","d">>, <<"f","u","n","c",":","A","d","d">>, <<"f","u","n","c",":">>, <<"f","o","o",":","A","d","d">>, <<"z","z","z">> }

\* arguments of direct calls of search
CallQueries == { <<"a","d","d"," "," ","p">> }
CallTypes == { <<>> }

\* list(self.root_dir.rglob("*.go"))
GoFiles(t) == [i \in 1..Len(t) |-> t[i].path]

\* the file of the tree at a path
FileAt(t, path) == t[CHOOSE i \in 1..Len(t) : t[i].path = path]


(***************************************************************************)
(* State.                                                                  *)
(***************************************************************************)
VARIABLES
  tree,       \* the Go files under repo_root, in listing order
  edits,      \* number of changes made to the tree
  has_model,  \* whether EmbeddingGenerator gets a model in this environment
  ipc,        \* position of the `index` run of main()
  go_files,   \* parse_all: the files still to visit
  entities,   \* GoCodeParser.entities
  failed,     \* paths whose _parse_file raised in this run
  pos,        \* index_entities: index of the entity being written
  conn,       \* the tables as the indexing connection sees them
  db,         \* the committed tables, which every other connection reads
  runs,       \* number of index runs started
  history,    \* the last completed index run: its tree, the tree of the
              \* completed run before it, the committed store before and
              \* after it (empty until a run completes)
  report,     \* the overview printed at the end of the last index run
  spc,        \* position of the reader: the interactive session of main()
              \* or a direct call of search
  last        \* what the last search or command produced

vars == <<tree, edits, has_model, ipc, go_files, entities, failed, pos, conn,
          db, runs, history, report, spc, last>>

indexer_vars == <<ipc, go_files, entities, failed, pos, conn, db, runs,
                  history, report>>

\* the tables of a new database; first is a history of the store: the
\* entity_ids in the order in which they were first inserted
EmptyStore == [ents |-> <<>>, index |-> <<>>, first |-> <<>>]

\* the history of first insertions after a write of id
FirstInserted(first, id) ==
  IF \E i \in 1..Len(first) : first[i] = id THEN first ELSE Append(first, id)

\* a connection in autocommit mode: every statement is visible at once
VisibleAtOnce(committed, working) == working

\* sqlite3.connect with the default isolation level: the first INSERT opens
\* a transaction, and until conn.commit() the other connections see the
\* committed tables, not the working tables of the writing connection
VisibleToOthers(committed, working) == committed

\* store is the state of the tables that the search or command read
NoOutput ==
  [op |-> "none", line |-> <<>>, query |-> <<>>, limit |-> 0,
   entity_types |-> <<>>, plan |-> "rowid", results |-> <<>>,
   overview |-> NoOverview, store |-> EmptyStore]

\* an environment without sentence-transformers (the ImportError branch of
\* the import at the top of the file); SpecWide below covers both cases
Init ==
  /\ tree \in Trees
  /\ edits = 0
  /\ has_model = FALSE
  /\ ipc = "idle"
  /\ go_files = <<>>
  /\ entities = <<>>
  /\ failed = {}
  /\ pos = 1
  /\ conn = EmptyStore
  /\ db = EmptyStore
  /\ runs = 0
  /\ history = <<>>
  /\ report = NoOverview
  /\ spc = "off"
  /\ last = NoOutput

(***************************************************************************)
(* The source tree changes between index runs.                             *)
(***************************************************************************)
EditTree ==
  /\ ipc = "idle"
  /\ edits < MaxEdits
  /\ \E t \in Trees \ {tree} : tree' = t
  /\ edits' = edits + 1
  /\ UNCHANGED <<has_model, indexer_vars, spc, last>>

(***************************************************************************)
(* main() with the argument `index`.                                       *)
(***************************************************************************)
\* CodebaseRAG(db_path), GoCodeParser(repo_root), the rglob of parse_all
StartIndex ==
  /\ ipc = "idle"
  /\ runs < MaxRuns
  /\ ipc' = "parsing"
  /\ runs' = runs + 1
  /\ go_files' = GoFiles(tree)
  /\ entities' = <<>>
  /\ failed' = {}
  /\ pos' = 1
  /\ conn' = db
  /\ UNCHANGED <<tree, edits, has_model, db, history, report, spc, last>>

\* one iteration of the loop of parse_all on a file that can be read
ParseNext ==
  /\ ipc = "parsing"
  /\ go_files # <<>>
  /\ LET go_file == Head(go_files)
     IN /\ Contains(go_file, <<"_","t","e","s","t",".","g","o">>) \/ FileAt(tree, go_file).readable
        /\ entities' =
             IF Contains(go_file, <<"_","t","e","s","t",".","g","o">>) THEN entities
             ELSE entities \o ParseFile(go_file, FileAt(tree, go_file).content)
  /\ go_files' = Tail(go_files)
  /\ UNCHANGED <<tree, edits, has_model, ipc, failed, pos, conn, db, runs,
                 history, report, spc, last>>

\* a parse failure that strikes after the file entity was appended, so that
\* the failed file leaves an entity behind
ParseFailsAfterFileEntity ==
  /\ ipc = "parsing"
  /\ go_files # <<>>
  /\ ~Contains(Head(go_files), <<"_","t","e","s","t",".","g","o">>)
  /\ ~FileAt(tree, Head(go_files)).readable
  /\ failed' = failed \cup {Head(go_files)}
  /\ entities' = entities \o <<FileEntity(Head(go_files),
                                          FileAt(tree, Head(go_files)).content)>>
  /\ go_files' = Tail(go_files)
  /\ UNCHANGED <<tree, edits, has_model, ipc, pos, conn, db, runs, history,
                 report, spc, last>>

\* one iteration of the loop of parse_all on a file whose read_text raises:
\* _parse_file reports the error and appends nothing
ParseFails ==
  /\ ipc = "parsing"
  /\ go_files # <<>>
  /\ ~Contains(Head(go_files), <<"_","t","e","s","t",".","g","o">>)
  /\ ~FileAt(tree, Head(go_files)).readable
  /\ failed' = failed \cup {Head(go_files)}
  /\ go_files' = Tail(go_files)
  /\ UNCHANGED <<tree, edits, has_model, ipc, entities, pos, conn, db, runs,
                 history, report, spc, last>>

\* parse_all returns; main prints the counts and calls index_entities
BeginIndexing ==
  /\ ipc = "parsing"
  /\ go_files = <<>>
  /\ ipc' = "entity"
  /\ pos' = 1
  /\ UNCHANGED <<tree, edits, has_model, go_files, entities, failed, conn, db,
                 runs, history, report, spc, last>>

\* index_entities: INSERT OR REPLACE INTO entities for entities[pos]
UpsertEntity ==
  /\ ipc = "entity"
  /\ pos <= Len(entities)
  /\ conn' = [conn EXCEPT
                !.ents = InsertOrReplace(@, EntityRow(entities[pos], has_model)),
                !.first = FirstInserted(@, entities[pos].entity_id)]
  /\ db' = VisibleToOthers(db, conn')
  /\ ipc' = "keywords"
  /\ UNCHANGED <<tree, edits, has_model, go_files, entities, failed, pos,
                 runs, history, report, spc, last>>

\* index_entities: INSERT OR REPLACE INTO search_index for entities[pos]
UpsertKeywords ==
  /\ ipc = "keywords"
  /\ conn' = [conn EXCEPT
                !.index = InsertOrReplace(@, KeywordRow(entities[pos]))]
  /\ db' = VisibleToOthers(db, conn')
  /\ pos' = pos + 1
  /\ ipc' = "entity"
  /\ UNCHANGED <<tree, edits, has_model, go_files, entities, failed, runs,
                 history, report, spc, last>>

\* index_entities: self.conn.commit() after the loop
Commit ==
  /\ ipc = "entity"
  /\ pos > Len(entities)
  /\ db' = conn
  /\ history' = <<[tree |-> tree,
                   previous |-> IF history = <<>> THEN <<>> ELSE history[1].tree,
                   before |-> db, after |-> conn]>>
  /\ ipc' = "report"
  /\ UNCHANGED <<tree, edits, has_model, go_files, entities, failed, pos, conn,
                 runs, report, spc, last>>

\* the process of an index run ends: its parser, its entity list and its
\* connection are gone
Exited ==
  /\ ipc' = "idle"
  /\ go_files' = <<>>
  /\ entities' = <<>>
  /\ failed' = {}
  /\ pos' = 1
  /\ conn' = db

\* main: the overview printed after index_entities, then rag.close()
Report ==
  /\ ipc = "report"
  /\ \E tie \in TiePlans : report' = Overview(conn.ents, tie)
  /\ Exited
  /\ UNCHANGED <<tree, edits, has_model, db, runs, history, spc, last>>

\* a statement of index_entities raises (or the run is interrupted): main
\* does not catch it, the process ends without commit and SQLite rolls the
\* open transaction back
Abort ==
  /\ ipc \in {"entity", "keywords"}
  /\ Exited
  /\ UNCHANGED <<tree, edits, has_model, db, runs, history, report, spc, last>>

(***************************************************************************)
(* main() without arguments: the interactive session.  It reads through    *)
(* its own connection, which sees the committed tables.                    *)
(***************************************************************************)
StartSession ==
  /\ spc = "off"
  /\ spc' = "reading"
  /\ last' = NoOutput
  /\ UNCHANGED <<tree, edits, has_model, indexer_vars>>

\* input("Search: ").strip()
ReadLine(line) == Strip(line)

\* query.lower() == 'quit': break, then rag.close()
Quit ==
  /\ spc = "reading"
  /\ \E line \in InputLines :
       /\ Lower(ReadLine(line)) = <<"q","u","i","t">>
       /\ last' = [NoOutput EXCEPT !.op = "quit", !.line = line]
  /\ spc' = "off"
  /\ UNCHANGED <<tree, edits, has_model, indexer_vars>>

\* query.lower() == 'arch'
Arch ==
  /\ spc = "reading"
  /\ \E line \in InputLines, tie \in TiePlans :
       /\ Lower(ReadLine(line)) = <<"a","r","c","h">>
       /\ last' = [NoOutput EXCEPT !.op = "arch", !.line = line,
                                   !.overview = Overview(db.ents, tie),
                                   !.store = db]
  /\ spc' = "printed"
  /\ UNCHANGED <<tree, edits, has_model, indexer_vars>>

\* query.lower() == 'help'
Help ==
  /\ spc = "reading"
  /\ \E line \in InputLines :
       /\ Lower(ReadLine(line)) = <<"h","e","l","p">>
       /\ last' = [NoOutput EXCEPT !.op = "help", !.line = line]
  /\ spc' = "printed"
  /\ UNCHANGED <<tree, edits, has_model, indexer_vars>>

IsCommand(query) == Lower(query) \in {<<"q","u","i","t">>, <<"a","r","c","h">>, <<"h","e","l","p">>}

\* not query: continue
EmptyLine ==
  /\ spc = "reading"
  /\ \E line \in InputLines :
       /\ ~IsCommand(ReadLine(line))
       /\ ReadLine(line) = <<>>
       /\ last' = [NoOutput EXCEPT !.op = "empty", !.line = line]
  /\ spc' = "printed"
  /\ UNCHANGED <<tree, edits, has_model, indexer_vars>>

\* the else branch: parse the options and search
SearchLine ==
  /\ spc = "reading"
  /\ \E line \in InputLines, plan \in ScanPlans :
       LET query == ReadLine(line)
           opts == ParseOptions(query)
       IN /\ ~IsCommand(query)
          /\ query # <<>>
          /\ last' = [op |-> "search", line |-> line,
                      query |-> opts.search_query, limit |-> SessionLimit,
                      entity_types |-> opts.entity_types, plan |-> plan,
                      results |-> Search(db.ents, db.index, plan,
                                         opts.search_query, SessionLimit,
                                         opts.entity_types),
                      overview |-> NoOverview, store |-> db]
  /\ spc' = "printed"
  /\ UNCHANGED <<tree, edits, has_model, indexer_vars>>

\* the loop comes back to input() for the next query
Prompt ==
  /\ spc = "printed"
  /\ spc' = "reading"
  /\ last' = NoOutput
  /\ UNCHANGED <<tree, edits, has_model, indexer_vars>>

\* KeyboardInterrupt at the prompt
Interrupt ==
  /\ spc = "reading"
  /\ last' = [NoOutput EXCEPT !.op = "interrupt"]
  /\ spc' = "off"
  /\ UNCHANGED <<tree, edits, has_model, indexer_vars>>

\* input() at the end of standard input raises EOFError; the try of the loop
\* catches KeyboardInterrupt only, so the error leaves main before rag.close()
EndOfInput ==
  /\ spc = "reading"
  /\ last' = [NoOutput EXCEPT !.op = "eof"]
  /\ spc' = "off"
  /\ UNCHANGED <<tree, edits, has_model, indexer_vars>>

\* CodebaseRAG.search called by a client with arguments of its own, while no
\* interactive session runs
SearchCall ==
  /\ spc = "off"
  /\ spc' = "returned"
  /\ \E query \in CallQueries, limit \in 0..MaxLimit, types \in CallTypes,
        plan \in ScanPlans :
       last' = [op |-> "call", line |-> <<>>, query |-> query,
                limit |-> limit, entity_types |-> types, plan |-> plan,
                results |-> Search(db.ents, db.index, plan, query, limit, types),
                overview |-> NoOverview, store |-> db]
  /\ UNCHANGED <<tree, edits, has_model, indexer_vars>>

\* the client is done with the result of its call
Return ==
  /\ spc = "returned"
  /\ spc' = "off"
  /\ last' = NoOutput
  /\ UNCHANGED <<tree, edits, has_model, indexer_vars>>

Next ==
  \/ EditTree
  \/ StartIndex
  \/ ParseNext
  \/ ParseFails
  \/ BeginIndexing
  \/ UpsertEntity
  \/ UpsertKeywords
  \/ Commit
  \/ Report
  \/ Abort
  \/ StartSession
  \/ Quit
  \/ Arch
  \/ Help
  \/ EmptyLine
  \/ SearchLine
  \/ Prompt
  \/ Interrupt
  \/ EndOfInput
  \/ SearchCall
  \/ Return

Spec == Init /\ [][Next]_vars

(***************************************************************************)
(* Index runs and overviews over a directory with more files than the      *)
(* overview lists, with and without an embedding model.                    *)
(***************************************************************************)
InitWide ==
  /\ tree \in WideTrees
  /\ edits = 0
  /\ has_model \in BOOLEAN
  /\ ipc = "idle"
  /\ go_files = <<>>
  /\ entities = <<>>
  /\ failed = {}
  /\ pos = 1
  /\ conn = EmptyStore
  /\ db = EmptyStore
  /\ runs = 0
  /\ history = <<>>
  /\ report = NoOverview
  /\ spc = "off"
  /\ last = NoOutput

EditWide ==
  /\ ipc = "idle"
  /\ edits < MaxEdits
  /\ \E t \in WideTrees \ {tree} : tree' = t
  /\ edits' = edits + 1
  /\ UNCHANGED <<has_model, indexer_vars, spc, last>>

NextWide ==
  \/ EditWide
  \/ StartIndex
  \/ ParseNext
  \/ BeginIndexing
  \/ UpsertEntity
  \/ UpsertKeywords
  \/ Commit
  \/ Report
  \/ Abort
  \/ StartSession
  \/ Arch
  \/ Prompt
  \/ Quit

SpecWide == InitWide /\ [][NextWide]_vars


(***************************************************************************)
(* Properties.                                                             *)
(***************************************************************************)
\* the last step was a search (of the session or of a client) and last
\* holds its arguments, the store it read and its result
Searched == last.op \in {"search", "call"}

IdsOf(table) == {table[i].entity_id : i \in 1..Len(table)}

\* position of an id in a sequence of ids (0 when absent)
PosIn(ids, id) ==
  IF \E i \in 1..Len(ids) : ids[i] = id
  THEN CHOOSE i \in 1..Len(ids) : ids[i] = id
  ELSE 0

\* match_count of a stored entity for a query: the number of lower-cased,
\* whitespace-separated query tokens that its keyword string contains
Relevance(store, id, query) ==
  LET tokens == SplitWs(Lower(query))
      row == CHOOSE r \in {store.index[i] : i \in 1..Len(store.index)} :
               r.entity_id = id
  IN Cardinality({i \in 1..Len(tokens) : Contains(Lower(row.keywords), tokens[i])})

\* the stored entities a query matches
Matching(store, query) ==
  {id \in IdsOf(store.index) : Relevance(store, id, query) >= 1}

\* C1: a search with a type filter returns only entities of the filtered
\* type.
C1_TypeFilterRespected ==
  (Searched /\ last.entity_types # <<>>) =>
    \A i \in 1..Len(last.results) :
      \E t \in 1..Len(last.entity_types) :
        last.results[i].entity_type = last.entity_types[t]

\* the prefix of an input line with a separator
PrefixOf(line) == SplitFirst(line, ":")[1]

\* C2: a line '<prefix>:<rest>' with an unknown prefix is searched without a
\* type filter and with the whole line as the query text.
C2_UnknownPrefixLiteral ==
  (/\ last.op = "search"
   /\ InSeq(":", ReadLine(last.line))
   /\ PrefixOf(ReadLine(last.line)) \notin {<<"f","u","n","c">>, <<"s","t","r","u","c","t">>, <<"f","i","l","e">>}) =>
    /\ last.entity_types = <<>>
    /\ last.query = ReadLine(last.line)

\* C3: the result of a search is the first `limit` entries of the matching
\* entities in descending order of match_count: at most limit entries, as
\* many as limit and the number of matches allow, no entity without a match,
\* no entity twice, counts never increasing, no better match left out, each
\* entry the stored entity, and nothing for a query without tokens or
\* without matches.
C3_TopLimitByMatchCount ==
  Searched =>
    LET R == last.results
        S == last.store
        q == last.query
        M == Matching(S, q)
        rel(i) == Relevance(S, R[i].entity_id, q)
    IN /\ Len(R) <= last.limit
       /\ Len(R) = Min(last.limit, Cardinality(M))
       /\ \A i \in 1..Len(R) : R[i].entity_id \in M
       /\ \A i, j \in 1..Len(R) : i < j =>
            /\ R[i].entity_id # R[j].entity_id
            /\ rel(i) >= rel(j)
       /\ \A id \in M \ {R[i].entity_id : i \in 1..Len(R)} :
            \A i \in 1..Len(R) : rel(i) >= Relevance(S, id, q)
       /\ \A i \in 1..Len(R) :
            \E n \in 1..Len(S.ents) :
              /\ S.ents[n].entity_id = R[i].entity_id
              /\ \A f \in DOMAIN R[i] : R[i][f] = S.ents[n][f]
       /\ (SplitWs(Lower(q)) = <<>> \/ M = {}) => R = <<>>

\* C3 witness: a search cut off by its limit below the number of matches,
\* with results of different match counts
C3_Witness ==
  /\ Searched
  /\ last.limit > 0
  /\ Len(last.results) = last.limit
  /\ Cardinality(Matching(last.store, last.query)) > last.limit
  /\ \E id \in Matching(last.store, last.query) :
       Relevance(last.store, id, last.query)
         < Relevance(last.store, last.results[1].entity_id, last.query)

\* C4 as claimed: entities with equal match_count appear in the order of
\* their original insertion into the store.
C4_TiesInInsertionOrder ==
  Searched =>
    \A i, j \in 1..Len(last.results) :
      (/\ i < j
       /\ Relevance(last.store, last.results[i].entity_id, last.query)
            = Relevance(last.store, last.results[j].entity_id, last.query)) =>
        PosIn(last.store.first, last.results[i].entity_id)
          < PosIn(last.store.first, last.results[j].entity_id)

\* C4 as amended: entities with equal match_count appear in the order in
\* which the unordered scan of search_index returns them: ascending
\* entity_id when SQLite scans the primary-key index, rowid order (the order
\* of the latest upsert of each id) when it scans the table.
C4_TiesInScanOrder ==
  Searched =>
    \A i, j \in 1..Len(last.results) :
      (/\ i < j
       /\ Relevance(last.store, last.results[i].entity_id, last.query)
            = Relevance(last.store, last.results[j].entity_id, last.query)) =>
        IF last.plan = "pk"
        THEN StrLess(last.results[i].entity_id, last.results[j].entity_id)
        ELSE PosIn([n \in 1..Len(last.store.index) |->
                      last.store.index[n].entity_id],
                   last.results[i].entity_id)
               < PosIn([n \in 1..Len(last.store.index) |->
                          last.store.index[n].entity_id],
                       last.results[j].entity_id)

\* C4 witness: a result with two entities of equal match_count whose order
\* is the reverse of their original insertion, in a store in which an
\* entity was written again
C4_Witness ==
  /\ Searched
  /\ \E i, j \in 1..Len(last.results) :
       /\ i < j
       /\ Relevance(last.store, last.results[i].entity_id, last.query)
            = Relevance(last.store, last.results[j].entity_id, last.query)
       /\ PosIn(last.store.first, last.results[i].entity_id)
            > PosIn(last.store.first, last.results[j].entity_id)
  /\ last.store.first # [n \in 1..Len(last.store.index) |->
                           last.store.index[n].entity_id]


\* the run of `index` is between its start and its report, so that entities
\* holds what parse_all made of the current tree
Running == ipc \in {"parsing", "entity", "keywords", "report"}

RECURSIVE BlockEnd(_, _, _)
\* position at which the brace depth, depth before position p, first
\* reaches 0, or the last position of the content if it never does
BlockEnd(content, p, depth) ==
  IF p > Len(content) THEN Len(content)
  ELSE LET d == IF content[p].k = "lbrace" THEN depth + 1
                ELSE IF content[p].k = "rbrace" THEN depth - 1
                ELSE depth
       IN IF d = 0 THEN p ELSE BlockEnd(content, p + 1, d)

\* the header kind of the declarations of an entity type
HeaderKind(type) ==
  IF type = T_function THEN "func"
  ELSE IF type = T_struct THEN "struct"
  ELSE "interface"

\* C5: for every matched declaration the signature is the text from the
\* start of the match up to, not including, the declaration's own opening
\* brace, and the body is the span from that brace to where the brace depth
\* first returns to 0 (or the end of the content).
C5_BlockOfOwnBrace ==
  Running =>
    \A n \in 1..Len(entities) :
      entities[n].entity_type # T_file =>
        LET e == entities[n]
            c == FileAt(tree, e.file_path).content
        IN \E i \in 1..Len(c) :
             /\ c[i].k = HeaderKind(e.entity_type)
             /\ c[i].s = e.name
             /\ LineNumber(c, i) = e.line_number
             /\ MatchEnd(c, i) # 0
             /\ LET own == MatchEnd(c, i)
                IN /\ e.signature = StripTokens(SubSeq(c, i, own - 1))
                   /\ e.content =
                        Take(SubSeq(c, own, BlockEnd(c, own + 1, 1)), BodyCap)

NoDuplicateId(table) ==
  \A i, j \in 1..Len(table) : i # j => table[i].entity_id # table[j].entity_id

RowsOf(table) == {table[i] : i \in 1..Len(table)}

\* C6: a completed index run on the tree of the completed run before it
\* leaves the set of stored entities and keyword rows as it was, and no
\* entity_id ever occurs in two rows of entities or of search_index.
C6_ReindexIdempotent ==
  /\ (history # <<>> /\ history[1].previous = history[1].tree) =>
       /\ RowsOf(history[1].after.ents) = RowsOf(history[1].before.ents)
       /\ RowsOf(history[1].after.index) = RowsOf(history[1].before.index)
  /\ NoDuplicateId(db.ents) /\ NoDuplicateId(db.index)
  /\ NoDuplicateId(conn.ents) /\ NoDuplicateId(conn.index)

\* C6 witness: a second run completed on an unchanged tree, over a store
\* that holds entities
C6_Witness ==
  /\ history # <<>>
  /\ history[1].previous = history[1].tree
  /\ Len(history[1].after.ents) >= 2
  /\ ipc = "report"

Coupled(store) == IdsOf(store.ents) = IdsOf(store.index)

\* C7: in the tables as any reader sees them, an entity_id has a row in
\* entities exactly if it has a row in search_index, also while a run is
\* between its two writes and after a run failed part-way.
C7_ReaderSeesCoupledRows ==
  /\ Coupled(db)
  /\ last.op \in {"search", "call", "arch"} => Coupled(last.store)

\* C7 witness: a session searched while the indexing connection had written
\* an entity row whose keyword row was still missing
C7_Witness ==
  /\ ipc = "keywords"
  /\ ~Coupled(conn)
  /\ db.ents # <<>>
  /\ spc = "printed"
  /\ last.op = "search"
  /\ last.store = db

\* C8: every function, struct or interface entity of a run has as
\* parent_entity the id of a file entity produced earlier in the same run,
\* every file entity has parent_entity null, a completed run has persisted
\* every entity it produced, and in the store every parent_entity of a
\* declaration is the id of a stored file entity.
C8_ParentIsFileOfSameRun ==
  /\ \A n \in 1..Len(entities) :
       IF entities[n].entity_type = T_file
       THEN entities[n].parent_entity = NULL
       ELSE \E m \in 1..(n - 1) :
              /\ entities[m].entity_type = T_file
              /\ entities[m].entity_id = entities[n].parent_entity
  /\ ipc = "report" =>
       \A n \in 1..Len(entities) :
         \E r \in RowsOf(db.ents) :
           /\ r.entity_id = entities[n].entity_id
           /\ r.parent_entity = entities[n].parent_entity
  /\ \A r \in RowsOf(db.ents) :
       IF r.entity_type = T_file
       THEN r.parent_entity = NULL
       ELSE \E f \in RowsOf(db.ents) :
              /\ f.entity_type = T_file
              /\ f.entity_id = r.parent_entity

\* C8 witness: a run in which a file failed to parse has committed, and it
\* produced a function entity
C8_Witness ==
  /\ ipc = "report"
  /\ failed # {}
  /\ \E n \in 1..Len(entities) : entities[n].entity_type = T_function

\* C9 as claimed: after its file entity, the entities of a file are listed
\* in the order of their declarations, whatever their kind.
C9_DeclarationOrder ==
  \A n, m \in 1..Len(entities) :
    (n < m /\ entities[n].file_path = entities[m].file_path) =>
      /\ entities[m].entity_type # T_file
      /\ entities[n].entity_type # T_file =>
           entities[n].line_number <= entities[m].line_number

KindRank(type) ==
  IF type = T_file THEN 0
  ELSE IF type = T_function THEN 1
  ELSE IF type = T_struct THEN 2
  ELSE 3

\* C9 as amended: the entities of a file are listed together: first the
\* file entity, then the function entities in declaration order, then the
\* struct entities in declaration order, then the interface entities in
\* declaration order.
C9_FunctionsThenTypes ==
  \A n, m \in 1..Len(entities) :
    (n < m /\ entities[n].file_path = entities[m].file_path) =>
      /\ entities[m].entity_type # T_file
      /\ KindRank(entities[n].entity_type) <= KindRank(entities[m].entity_type)
      /\ entities[n].entity_type = entities[m].entity_type =>
           entities[n].line_number <= entities[m].line_number
      /\ \A k \in n..m : entities[k].file_path = entities[n].file_path

\* C9 witness: a struct declared above a function of the same file is
\* listed after it
C9_Witness ==
  \E n, m \in 1..Len(entities) :
    /\ n < m
    /\ entities[n].file_path = entities[m].file_path
    /\ entities[n].entity_type = T_function
    /\ entities[m].entity_type = T_struct
    /\ entities[m].line_number < entities[n].line_number

\* a tree of one readable file with one package declaration and one
\* function declaration
OneFunctionFile(t) ==
  /\ Len(t) = 1
  /\ t[1].readable
  /\ Cardinality({i \in 1..Len(t[1].content) :
                    t[1].content[i].k = "package"}) = 1
  /\ Cardinality({i \in 1..Len(t[1].content) :
                    t[1].content[i].k \in {"func", "funcret"}}) = 1
  /\ \A i \in 1..Len(t[1].content) :
       t[1].content[i].k \notin {"struct", "interface"}

FunctionNameIn(content) ==
  content[CHOOSE i \in 1..Len(content) : content[i].k \in {"func", "funcret"}].s

\* C10: after indexing one file with a package declaration and one
\* function declaration into an empty store, a search for the function's
\* name returns exactly one result, of type function, which carries
\* parent_entity equal to the id of the file entity.
C10_RoundTrip ==
  (/\ Searched
   /\ history # <<>>
   /\ history[1].before = EmptyStore
   /\ last.store = history[1].after
   /\ OneFunctionFile(history[1].tree)
   /\ last.query = FunctionNameIn(history[1].tree[1].content)
   /\ last.entity_types = <<>>
   /\ last.limit >= 1) =>
    /\ Len(last.results) = 1
    /\ last.results[1].entity_type = T_function
    /\ "parent_entity" \in DOMAIN last.results[1]
    /\ last.results[1].parent_entity = FileId(history[1].tree[1].path)


(***************************************************************************)
(* C11  The interactive session ends only on the quit command or on an     *)
(* interrupt: whenever no session is running, the last thing a session did *)
(* (if any did anything) was to read quit or to be interrupted; and after  *)
(* every other input line (arch, help, an empty line, a search, with or    *)
(* without results, with a known, an unknown or an empty prefix) the       *)
(* session has reported and is on its way back to the prompt.              *)
(***************************************************************************)
SessionOver == spc = "off" /\ last.op \notin {"none", "call"}

C11_EndsOnlyOnQuitOrInterrupt ==
  /\ SessionOver => last.op \in {"quit", "interrupt"}
  /\ last.op \in {"arch", "help", "empty", "search"} => spc = "printed"

(***************************************************************************)
(* C12  A parse failure stays with its file.  In every state of an index   *)
(* run, with some files of the listing already handled: the entities       *)
(* produced so far are exactly those of the handled files that are not     *)
(* test files and could be read, in listing order; the files recorded as   *)
(* failed are exactly the handled files that could not be read, and none   *)
(* of them owns an entity; the step on which a file fails leaves the run   *)
(* in its parsing loop with the entities collected so far; and once the    *)
(* run is at its report, every entity produced is in the committed store   *)
(* with its keywords.                                                      *)
(***************************************************************************)
Skipped(file) == Contains(file.path, <<"_","t","e","s","t",".","g","o">>)

RECURSIVE EntitiesOfFiles(_, _)
\* the entities of the first n files of a tree, failures left out
EntitiesOfFiles(t, n) ==
  IF n = 0 THEN <<>>
  ELSE EntitiesOfFiles(t, n - 1)
         \o (IF Skipped(t[n]) \/ ~t[n].readable THEN <<>>
             ELSE ParseFile(t[n].path, t[n].content))

\* the state of a run in which some files of the listing are handled
ParseFailureIsolated ==
  Running =>
    LET done == Len(tree) - Len(go_files)
    IN /\ entities = EntitiesOfFiles(tree, done)
       /\ failed = {tree[i].path : i \in {j \in 1..done :
                        ~Skipped(tree[j]) /\ ~tree[j].readable}}
       /\ \A i \in 1..Len(entities) : entities[i].file_path \notin failed
       /\ ipc = "report" =>
            \A i \in 1..Len(entities) :
              /\ EntityRow(entities[i], has_model) \in RowsOf(db.ents)
              /\ KeywordRow(entities[i]) \in RowsOf(db.index)

\* the step that handles a file that cannot be read leaves the run going,
\* with the entities collected so far untouched
FailureKeepsRunning ==
  (ipc = "parsing" /\ failed' # failed) =>
     /\ ipc' = "parsing"
     /\ entities' = entities
     /\ conn' = conn /\ db' = db

C12_ParseFailureIsolated ==
  []ParseFailureIsolated /\ [][FailureKeepsRunning]_vars

\* C12 witness: a run reached its report although one of its files failed,
\* and the entities of another file are in the store
C12_Witness ==
  /\ ipc = "report"
  /\ failed # {}
  /\ entities # <<>>
  /\ \A i \in 1..Len(entities) :
       EntityRow(entities[i], has_model) \in RowsOf(db.ents)

(***************************************************************************)
(* C13  After any sequence of index runs the overview counts the store:    *)
(* total_entities is the number of stored entities, by_type[t] the number  *)
(* of stored entities of type t, the counts of by_type and those of        *)
(* by_package each add up to total_entities, top_files has at most 10      *)
(* entries, each a file with its number of entities, in non-increasing     *)
(* order of count; and computing the overview leaves the store as it was.  *)
(***************************************************************************)
RECURSIVE CountRows(_, _, _, _)
\* the number of rows among the first n whose value in the field is v,
\* counted row by row
CountRows(ents, n, field, v) ==
  IF n = 0 THEN 0
  ELSE CountRows(ents, n - 1, field, v)
         + (IF (IF field = "entity_type" THEN ents[n].entity_type
                ELSE ents[n].file_path) = v THEN 1 ELSE 0)

RECURSIVE SumOver(_, _)
\* the sum of the values of a mapping over a set of its keys
SumOver(f, keys) ==
  IF keys = {} THEN 0
  ELSE LET k == CHOOSE x \in keys : TRUE
       IN f[k] + SumOver(f, keys \ {k})

OverviewCounts(o, ents) ==
  LET n == Len(ents)
  IN /\ o.total_entities = n
     /\ DOMAIN o.by_type = {ents[i].entity_type : i \in 1..n}
     /\ \A t \in DOMAIN o.by_type :
          o.by_type[t] = CountRows(ents, n, "entity_type", t)
     /\ SumOver(o.by_type, DOMAIN o.by_type) = n
     /\ SumOver(o.by_package, DOMAIN o.by_package) = n
     /\ Len(o.top_files) <= 10
     /\ \A i \in 1..Len(o.top_files) :
          o.top_files[i].count =
            CountRows(ents, n, "file_path", o.top_files[i].file)
     /\ \A i, j \in 1..Len(o.top_files) :
          i < j => o.top_files[i].count >= o.top_files[j].count

\* the overview printed by the last completed index run and the one printed
\* for the arch command
OverviewsCountStore ==
  /\ ipc = "idle" => OverviewCounts(report, db.ents)
  /\ last.op = "arch" => OverviewCounts(last.overview, last.store.ents)

\* a step that computes an overview: the report of a run, the arch command
OverviewReadsOnly ==
  ((ipc = "report" /\ ipc' = "idle") \/ (last.op # "arch" /\ last'.op = "arch"))
     => db' = db

C13_OverviewCountsStore ==
  []OverviewsCountStore /\ [][OverviewReadsOnly]_vars

\* C13 witness: after a second run on a changed directory the store holds
\* entities of more than 10 files, among them a deleted one, and the arch
\* command lists 10 files with different counts
C13_Witness ==
  /\ runs >= 2
  /\ last.op = "arch"
  /\ Cardinality({last.store.ents[i].file_path :
                    i \in 1..Len(last.store.ents)}) > 10
  /\ \E i \in 1..Len(last.store.ents) :
       \A k \in 1..Len(tree) : tree[k].path # last.store.ents[i].file_path
  /\ Len(last.overview.top_files) = 10
  /\ last.overview.top_files[1].count > last.overview.top_files[10].count
  /\ last.overview.total_entities > 10

====
